---- MODULE Spec2Model ----
(***************************************************************************)
(* A model of packages/xdl/src/tools/Plist.ts: the conversion of an XML    *)
(* DOM tree into a Plist value tree (parse and parsePlistXML).             *)
(*                                                                         *)
(* A DOM node is a record [nodeType, nodeName, nodeValue, childNodes].     *)
(* Text is a sequence of one-character strings, so that concatenation      *)
(* (\o), parseInt, parseFloat, whitespace stripping and base64 decoding    *)
(* are computed character by character.                                    *)
(* A JavaScript value is a record [t, v]; t is the kind of the value.      *)
(* The result of a call is a record [ok, val, err, calls]: ok = FALSE is a *)
(* thrown Error whose message is err, and calls counts the invocations of  *)
(* parsePlistXML made during the call (itself included).                   *)
(***************************************************************************)
EXTENDS Integers, Sequences, FiniteSets, TLC

VARIABLES node, pc, res

vars == <<node, pc, res>>

-----------------------------------------------------------------------------
(* Bounds of the model *)

\* the largest number of children of a leaf element (key, string, ...)
MaxLeafKids == 2

\* the largest number of children of a flat dict / array / plist element
MaxKids == 4

\* the deepest chain of containers wrapped around a small container
MaxDepth == 2

-----------------------------------------------------------------------------
(* DOM nodes *)

TEXT_NODE == 3

CDATA_NODE == 4

COMMENT_NODE == 8

Elem(name, kids) ==
  [nodeType |-> 1, nodeName |-> name, nodeValue |-> <<>>, childNodes |-> kids]

TextNode(s) ==
  [nodeType |-> TEXT_NODE, nodeName |-> "#text", nodeValue |-> s, childNodes |-> <<>>]

CDataNode(s) ==
  [nodeType |-> CDATA_NODE, nodeName |-> "#cdata-section", nodeValue |-> s, childNodes |-> <<>>]

CommentNode(s) ==
  [nodeType |-> COMMENT_NODE, nodeName |-> "#comment", nodeValue |-> s, childNodes |-> <<>>]

\* an element: nodeType 1 (xmldom's ELEMENT_NODE)
IsElement(n) == n.nodeType = 1

shouldIgnoreNode(n) ==
  n.nodeType = TEXT_NODE \/ n.nodeType = COMMENT_NODE \/ n.nodeType = CDATA_NODE

isEmptyNode(n) == Len(n.childNodes) = 0

-----------------------------------------------------------------------------
(* JavaScript values *)

Undefined == [t |-> "undefined", v |-> 0]

Null == [t |-> "null", v |-> 0]

Str(s) == [t |-> "string", v |-> s]

\* a finite number, as its sign and the digits before and after the point
\* (no leading zero before it, no trailing zero after it)
Num(neg, ip, fp) == [t |-> "number", v |-> <<neg, ip, fp>>]

NaN == [t |-> "NaN", v |-> 0]

Bool(b) == [t |-> "boolean", v |-> b]

Buffer(bytes) == [t |-> "Buffer", v |-> bytes]

\* a Date holding a time value; v is <<year, month, day>>
DateOf(y, m, d) == [t |-> "Date", v |-> <<y, m, d>>]

\* the Date that new Date(text) yields for a text that is not one of the
\* date-only forms YYYY, YYYY-MM, YYYY-MM-DD: Invalid Date, or the time value
\* the engine's other parsers make of the text. Never an exception.
OtherDate == [t |-> "DateOther", v |-> <<>>]

Arr(items) == [t |-> "Array", v |-> items]

\* an object: its own enumerable properties, in insertion order
Obj(props) == [t |-> "Object", v |-> props]

\* res != null  (loose inequality: neither null nor undefined)
NotNullish(x) == x.t # "undefined" /\ x.t # "null"

\* an Error: the fixed part of its message and the text spliced into it
Err(msg, arg) == [msg |-> msg, arg |-> arg]

NoErr == Err("", <<>>)

Ok(val, calls) == [ok |-> TRUE, val |-> val, err |-> NoErr, calls |-> calls]

Throw(err, calls) == [ok |-> FALSE, val |-> Undefined, err |-> err, calls |-> calls]

-----------------------------------------------------------------------------
(* Text: sequences of characters *)

Digits == <<"0", "1", "2", "3", "4", "5", "6", "7", "8", "9">>

IsDigit(c) == \E i \in 1..Len(Digits) : Digits[i] = c

DigitVal(c) == (CHOOSE i \in 1..Len(Digits) : Digits[i] = c) - 1

\* the characters \s matches, as far as the model's texts hold them
IsSpace(c) == c \in {" ", "\t", "\n", "\r"}

Drop(s, n) == SubSeq(s, n + 1, Len(s))

RECURSIVE TrimStart(_)
TrimStart(s) ==
  IF s # <<>> /\ IsSpace(s[1]) THEN TrimStart(Tail(s)) ELSE s

\* the longest prefix of s made of digits
RECURSIVE DigitPrefix(_)
DigitPrefix(s) ==
  IF s # <<>> /\ IsDigit(s[1]) THEN <<s[1]>> \o DigitPrefix(Tail(s)) ELSE <<>>

RECURSIVE DigitsValue(_)
DigitsValue(ds) ==
  IF ds = <<>> THEN 0
  ELSE DigitsValue(SubSeq(ds, 1, Len(ds) - 1)) * 10 + DigitVal(ds[Len(ds)])

\* ToString of a value spliced into a message or used as a property name
ToStr(x) ==
  IF x.t = "string" THEN x.v
  ELSE IF x.t = "null" THEN <<"n", "u", "l", "l">>
  ELSE <<"u", "n", "d", "e", "f", "i", "n", "e", "d">>

RECURSIVE StripLeadingZeros(_)
StripLeadingZeros(ds) ==
  IF ds # <<>> /\ ds[1] = "0" THEN StripLeadingZeros(Tail(ds)) ELSE ds

RECURSIVE StripTrailingZeros(_)
StripTrailingZeros(ds) ==
  IF ds # <<>> /\ ds[Len(ds)] = "0"
  THEN StripTrailingZeros(SubSeq(ds, 1, Len(ds) - 1))
  ELSE ds

\* parseInt(s, 10): leading white space is skipped, then an optional sign,
\* then the longest run of digits; no digit at all gives NaN.
parseInt(s) ==
  LET t    == TrimStart(s)
      neg  == t # <<>> /\ t[1] = "-"
      body == IF t # <<>> /\ t[1] \in {"-", "+"} THEN Tail(t) ELSE t
      ds   == DigitPrefix(body)
  IN  IF ds = <<>> THEN NaN
      ELSE Num(neg, StripLeadingZeros(ds), <<>>)

\* parseFloat(s): leading white space is skipped, then the longest prefix
\* that is a decimal literal: sign, digits, and a fraction. (The model's
\* texts hold no exponent and no "Infinity".)  No such prefix gives NaN.
parseFloat(s) ==
  LET t     == TrimStart(s)
      neg   == t # <<>> /\ t[1] = "-"
      body  == IF t # <<>> /\ t[1] \in {"-", "+"} THEN Tail(t) ELSE t
      ip    == DigitPrefix(body)
      rest  == Drop(body, Len(ip))
      fp    == IF rest # <<>> /\ rest[1] = "." THEN DigitPrefix(Tail(rest)) ELSE <<>>
  IN  IF ip = <<>> /\ fp = <<>> THEN NaN
      ELSE Num(neg, StripLeadingZeros(ip), StripTrailingZeros(fp))

\* s.replace(/\s+/g, '')
RECURSIVE StripSpace(_)
StripSpace(s) ==
  IF s = <<>> THEN <<>>
  ELSE IF IsSpace(s[1]) THEN StripSpace(Tail(s))
  ELSE <<s[1]>> \o StripSpace(Tail(s))

B64Chars ==
  << "A", "B", "C", "D", "E", "F", "G", "H", "I", "J", "K", "L", "M",
     "N", "O", "P", "Q", "R", "S", "T", "U", "V", "W", "X", "Y", "Z",
     "a", "b", "c", "d", "e", "f", "g", "h", "i", "j", "k", "l", "m",
     "n", "o", "p", "q", "r", "s", "t", "u", "v", "w", "x", "y", "z",
     "0", "1", "2", "3", "4", "5", "6", "7", "8", "9", "+", "/" >>

IsB64(c) == c \in {"-", "_"} \/ \E i \in 1..Len(B64Chars) : B64Chars[i] = c

Sextet(c) ==
  IF c = "-" THEN 62
  ELSE IF c = "_" THEN 63
  ELSE (CHOOSE i \in 1..Len(B64Chars) : B64Chars[i] = c) - 1

\* the sextets of the characters of s that belong to the base64 alphabets;
\* the decoder passes over every other character
RECURSIVE Sextets(_)
Sextets(s) ==
  IF s = <<>> THEN <<>>
  ELSE IF IsB64(s[1]) THEN <<Sextet(s[1])>> \o Sextets(Tail(s))
  ELSE Sextets(Tail(s))

RECURSIVE PackBytes(_)
PackBytes(x) ==
  IF Len(x) < 2 THEN <<>>
  ELSE LET b1 == x[1] * 4 + x[2] \div 16
       IN  IF Len(x) = 2 THEN <<b1>>
           ELSE LET b2 == (x[2] % 16) * 16 + x[3] \div 4
                IN  IF Len(x) = 3 THEN <<b1, b2>>
                    ELSE <<b1, b2, (x[3] % 4) * 64 + x[4]>> \o PackBytes(Drop(x, 4))

\* Buffer.from(s, 'base64')
BufferFromBase64(s) == Buffer(PackBytes(Sextets(s)))

AllDigits(s) == \A i \in 1..Len(s) : IsDigit(s[i])

\* whether s is YYYY, YYYY-MM or YYYY-MM-DD with a month and a day in range
IsDateOnly(s) ==
  /\ Len(s) \in {4, 7, 10}
  /\ AllDigits(SubSeq(s, 1, 4))
  /\ Len(s) >= 7 =>
       /\ s[5] = "-"
       /\ AllDigits(SubSeq(s, 6, 7))
       /\ DigitsValue(SubSeq(s, 6, 7)) \in 1..12
  /\ Len(s) = 10 =>
       /\ s[8] = "-"
       /\ AllDigits(SubSeq(s, 9, 10))
       /\ DigitsValue(SubSeq(s, 9, 10)) \in 1..31

\* new Date(s)
NewDate(s) ==
  IF IsDateOnly(s)
  THEN DateOf(DigitsValue(SubSeq(s, 1, 4)),
              IF Len(s) >= 7 THEN DigitsValue(SubSeq(s, 6, 7)) ELSE 1,
              IF Len(s) = 10 THEN DigitsValue(SubSeq(s, 9, 10)) ELSE 1)
  ELSE OtherDate

-----------------------------------------------------------------------------
(* Objects *)

\* the property name whose assignment reaches the accessor of Object.prototype
ProtoKey == <<"_", "_", "p", "r", "o", "t", "o", "_", "_">>

HasProp(props, k) == \E i \in 1..Len(props) : props[i].k = k

\* obj[k] = val on an object created by {} : an own property is written in
\* place or added at the end.  The name __proto__ is no own property: the
\* assignment runs the setter inherited from Object.prototype, which sets or
\* leaves the prototype and adds nothing to the object's own properties.
ObjSet(props, k, val) ==
  IF k = ProtoKey THEN props
  ELSE IF HasProp(props, k)
       THEN [i \in 1..Len(props) |->
               IF props[i].k = k THEN [k |-> k, v |-> val] ELSE props[i]]
       ELSE Append(props, [k |-> k, v |-> val])

-----------------------------------------------------------------------------
(* parsePlistXML, branch by branch *)

\* the text of the children of n whose nodeType is in types, in order
RECURSIVE ConcatValues(_, _, _)
ConcatValues(kids, i, types) ==
  IF i > Len(kids) THEN <<>>
  ELSE (IF kids[i].nodeType \in types THEN kids[i].nodeValue ELSE <<>>)
       \o ConcatValues(kids, i + 1, types)

\* as ConcatValues, each text with its white space removed
RECURSIVE ConcatStripped(_, _, _)
ConcatStripped(kids, i, types) ==
  IF i > Len(kids) THEN <<>>
  ELSE (IF kids[i].nodeType \in types THEN StripSpace(kids[i].nodeValue) ELSE <<>>)
       \o ConcatStripped(kids, i + 1, types)

keyBranch(n) ==
  IF isEmptyNode(n) THEN Ok(Str(<<>>), 1)
  ELSE Ok(Str(n.childNodes[1].nodeValue), 1)

stringBranch(n) ==
  IF isEmptyNode(n) THEN Ok(Str(<<>>), 1)
  ELSE Ok(Str(ConcatValues(n.childNodes, 1, {TEXT_NODE, CDATA_NODE})), 1)

\* integerBranch without the invariant on the empty element
integerBranchNoCheck(n) ==
  Ok(parseInt(IF isEmptyNode(n) THEN <<>> ELSE n.childNodes[1].nodeValue), 1)

integerBranch(n) ==
  IF isEmptyNode(n) THEN Throw(Err("Cannot parse \"\" as integer.", <<>>), 1)
  ELSE Ok(parseInt(n.childNodes[1].nodeValue), 1)

realBranch(n) ==
  IF isEmptyNode(n) THEN Throw(Err("Cannot parse \"\" as real.", <<>>), 1)
  ELSE Ok(parseFloat(ConcatValues(n.childNodes, 1, {TEXT_NODE})), 1)

dataBranch(n) ==
  IF isEmptyNode(n) THEN Ok(BufferFromBase64(<<>>), 1)
  ELSE Ok(BufferFromBase64(ConcatStripped(n.childNodes, 1, {TEXT_NODE})), 1)

dateBranch(n) ==
  IF isEmptyNode(n) THEN Throw(Err("Cannot parse \"\" as Date.", <<>>), 1)
  ELSE Ok(NewDate(n.childNodes[1].nodeValue), 1)

\* new_arr.push(parsePlistXML(child)) of the plist branch
plistPush(arr, val) == Append(arr, val)

\* arrayPush without the test of res
arrayPushAll(arr, val) == Append(arr, val)

\* if (res != null) new_arr.push(res) of the array branch
arrayPush(arr, val) == IF NotNullish(val) THEN Append(arr, val) ELSE arr

\* new_obj[key] = value of the dict branch
dictStore(props, key, val) == ObjSet(props, ToStr(key), val)

\* unexpectedKeyErr with the key text left out of the message
unexpectedKeyErrNoText(built) == Err("Unexpected key while parsing <dict/>.", <<>>)

\* the message of the invariant that a value position holds no <key>; built
\* is the result of the call of parsePlistXML on that child
unexpectedKeyErr(built) == Err("Unexpected key while parsing <dict/>.", ToStr(built))

\* dictEnd without the test of counter
dictEndNoCheck(props, key, counter, calls) == Ok(Obj(props), calls)

\* after the loop of the dict branch: a pending key without a value throws
dictEnd(props, key, counter, calls) ==
  IF counter % 2 = 1
  THEN Throw(Err("Missing value while parsing <dict/>", ToStr(key)), calls)
  ELSE Ok(Obj(props), calls)

RECURSIVE parsePlistXML(_)
RECURSIVE plistLoop(_, _, _, _)
RECURSIVE arrayLoop(_, _, _, _)
RECURSIVE dictLoop(_, _, _, _, _, _)

plistLoop(kids, i, arr, calls) ==
  IF i > Len(kids) THEN Ok(Arr(arr), calls)
  ELSE IF shouldIgnoreNode(kids[i]) THEN plistLoop(kids, i + 1, arr, calls)
  ELSE LET r == parsePlistXML(kids[i])
       IN  IF ~r.ok THEN Throw(r.err, calls + r.calls)
           ELSE plistLoop(kids, i + 1, plistPush(arr, r.val), calls + r.calls)

arrayLoop(kids, i, arr, calls) ==
  IF i > Len(kids) THEN Ok(Arr(arr), calls)
  ELSE IF shouldIgnoreNode(kids[i]) THEN arrayLoop(kids, i + 1, arr, calls)
  ELSE LET r == parsePlistXML(kids[i])
       IN  IF ~r.ok THEN Throw(r.err, calls + r.calls)
           ELSE arrayLoop(kids, i + 1, arrayPush(arr, r.val), calls + r.calls)

\* The loop of the dict branch.  At a value position the message of the
\* invariant is an argument of the call: parsePlistXML(child) is evaluated
\* for it before the condition is looked at, and once more for the store.
dictLoop(kids, i, props, key, counter, calls) ==
  IF i > Len(kids) THEN dictEnd(props, key, counter, calls)
  ELSE IF shouldIgnoreNode(kids[i])
  THEN dictLoop(kids, i + 1, props, key, counter, calls)
  ELSE IF counter % 2 = 0
  THEN IF kids[i].nodeName # "key"
       THEN Throw(Err("Missing key while parsing <dict/>.", <<>>), calls)
       ELSE LET r == parsePlistXML(kids[i])
            IN  IF ~r.ok THEN Throw(r.err, calls + r.calls)
                ELSE dictLoop(kids, i + 1, props, r.val, counter + 1, calls + r.calls)
  ELSE LET m == parsePlistXML(kids[i])
       IN  IF ~m.ok THEN Throw(m.err, calls + m.calls)
           ELSE IF kids[i].nodeName = "key"
           THEN Throw(unexpectedKeyErr(m.val), calls + m.calls)
           ELSE LET r == parsePlistXML(kids[i])
                IN  IF ~r.ok THEN Throw(r.err, calls + m.calls + r.calls)
                    ELSE dictLoop(kids, i + 1, dictStore(props, key, r.val), key,
                                  counter + 1, calls + m.calls + r.calls)

plistBranch(n) == plistLoop(n.childNodes, 1, <<>>, 1)

arrayBranch(n) == arrayLoop(n.childNodes, 1, <<>>, 1)

dictBranch(n) == dictLoop(n.childNodes, 1, <<>>, Null, 0, 1)

parsePlistXML(n) ==
  IF n.nodeName = "plist" THEN plistBranch(n)
  ELSE IF n.nodeName = "dict" THEN dictBranch(n)
  ELSE IF n.nodeName = "array" THEN arrayBranch(n)
  ELSE IF n.nodeName = "#text" THEN Ok(Undefined, 1)
  ELSE IF n.nodeName = "key" THEN keyBranch(n)
  ELSE IF n.nodeName = "string" THEN stringBranch(n)
  ELSE IF n.nodeName = "integer" THEN integerBranch(n)
  ELSE IF n.nodeName = "real" THEN realBranch(n)
  ELSE IF n.nodeName = "data" THEN dataBranch(n)
  ELSE IF n.nodeName = "date" THEN dateBranch(n)
  ELSE IF n.nodeName = "true" THEN Ok(Bool(TRUE), 1)
  ELSE IF n.nodeName = "false" THEN Ok(Bool(FALSE), 1)
  ELSE Ok(Undefined, 1)

\* unwrap with the test plist.length >= 1
unwrapFirst(plist) == IF Len(plist.v) >= 1 THEN plist.v[1] ELSE plist

\* if (plist.length == 1) plist = plist[0]
unwrap(plist) == IF Len(plist.v) = 1 THEN plist.v[1] ELSE plist

\* parse, from the document element on
parse(root) ==
  IF root.nodeName # "plist"
  THEN Throw(Err("malformed document. First element should be <plist>", <<>>), 0)
  ELSE LET r == parsePlistXML(root)
       IN  IF ~r.ok THEN r ELSE Ok(unwrap(r.val), r.calls)

-----------------------------------------------------------------------------
(* The documents of the model *)

SeqsUpTo(S, n) == UNION {[1..k -> S] : k \in 0..n}

\* texts: garbage for a number and a date; digits; white space, a sign and a
\* fraction; a date (a year); base64 with white space inside
NodeVals ==
  { <<"a">>,
    <<"1", "2">>,
    <<" ", "-", "1", ".", "5">>,
    <<"2", "0", "2", "0">>,
    <<"Q", "Q", " ", "E">> }

CharData ==
  {TextNode(s) : s \in NodeVals} \cup {CDataNode(s) : s \in NodeVals}
    \cup {CommentNode(s) : s \in NodeVals}

LeafNames ==
  {"key", "string", "integer", "real", "data", "date", "true", "false", "foo"}

\* the names parsePlistXML has a branch for that returns a value
KnownNames ==
  {"plist", "dict", "array", "key", "string", "integer", "real", "data",
   "date", "true", "false"}

KeyA == Elem("key", <<TextNode(<<"a">>)>>)

KeyB == Elem("key", <<TextNode(<<"b">>)>>)

\* <key>a<![CDATA[b]]></key>
KeySplit == Elem("key", <<TextNode(<<"a">>), CDataNode(<<"b">>)>>)

KeyProto == Elem("key", <<TextNode(ProtoKey)>>)

StrX == Elem("string", <<TextNode(<<"x">>)>>)

TrueEl == Elem("true", <<>>)

\* an element with a name parsePlistXML does not know
Foo == Elem("foo", <<>>)

\* <integer/>, whose build throws
IntEmpty == Elem("integer", <<>>)

Ws == TextNode(<<" ">>)

Cmt == CommentNode(<<"c">>)

DictKids == {KeyA, KeyB, KeySplit, KeyProto, StrX, Foo, IntEmpty, Ws, Cmt}

ListKids == {KeyA, StrX, TrueEl, Foo, IntEmpty, Ws, Cmt}

\* the children of the small containers that the nested documents wrap
NestKids == {KeyA, StrX, Foo}

\* S wrapped once: as the value of a dict, the member of an array, the child
\* of a plist
Wrap(S) ==
  {Elem("dict", <<KeyA, x>>) : x \in S} \cup {Elem("array", <<x>>) : x \in S}
    \cup {Elem("plist", <<x>>) : x \in S}

RECURSIVE Nested(_)
Nested(d) ==
  IF d = 0
  THEN {Elem(nm, kids) : nm \in {"dict", "array", "plist"}, kids \in SeqsUpTo(NestKids, 2)}
  ELSE Wrap(Nested(d - 1))

\* a leaf element with up to MaxLeafKids children that are character data
IsLeafInput(n) ==
  \E nm \in LeafNames, k \in 0..MaxLeafKids :
    \E kids \in [1..k -> CharData] : n = Elem(nm, kids)

\* a dict with up to MaxKids children
IsDictInput(n) ==
  \E k \in 0..MaxKids : \E kids \in [1..k -> DictKids] : n = Elem("dict", kids)

\* an array or a plist with up to MaxKids children
IsListInput(n) ==
  \E nm \in {"array", "plist"}, k \in 0..MaxKids :
    \E kids \in [1..k -> ListKids] : n = Elem(nm, kids)

\* a small container wrapped in up to MaxDepth containers
IsNestedInput(n) == \E d \in 1..MaxDepth : n \in Nested(d)

-----------------------------------------------------------------------------
(* The specification: an element is handed to parsePlistXML, or to parse as  *)
(* the document element                                                     *)

Init ==
  /\ \/ IsLeafInput(node)
     \/ IsDictInput(node)
     \/ IsListInput(node)
     \/ IsNestedInput(node)
  /\ pc = "init"
  /\ res = Ok(Undefined, 0)

Build ==
  /\ pc = "init"
  /\ res' = parsePlistXML(node)
  /\ pc' = "built"
  /\ UNCHANGED node

Parse ==
  /\ pc = "init"
  /\ res' = parse(node)
  /\ pc' = "parsed"
  /\ UNCHANGED node

Next == Build \/ Parse

Spec == Init /\ [][Next]_vars

TypeOK ==
  /\ pc \in {"init", "built", "parsed"}
  /\ res.ok \in BOOLEAN
  /\ res.calls \in Nat

-----------------------------------------------------------------------------
(* What the claims speak of, read off the document *)

\* the non-ignorable children of n, in document order
NonIgn(n) == SelectSeq(n.childNodes, LAMBDA c : IsElement(c))

\* key elements at the 1st, 3rd, ... place and other elements at the 2nd, 4th, ...
AlternatesUpTo(ks, n) ==
  \A i \in 1..n : (ks[i].nodeName = "key") <=> (i % 2 = 1)

BuildsOK(ks, n) == \A i \in 1..n : parsePlistXML(ks[i]).ok

Built(c) == parsePlistXML(c).val

\* the text content of an element: its Text and CDATA children, joined
TextContent(n) == ConcatValues(n.childNodes, 1, {TEXT_NODE, CDATA_NODE})

HasDigit(s) == \E i \in 1..Len(s) : IsDigit(s[i])

KeysOf(obj) == {obj.v[i].k : i \in 1..Len(obj.v)}

Lookup(obj, k) == obj.v[CHOOSE i \in 1..Len(obj.v) : obj.v[i].k = k].v

\* no undefined / null in a value slot of an object, in a list, or at the top
RECURSIVE NoHole(_)
NoHole(x) ==
  /\ NotNullish(x)
  /\ x.t = "Array" => \A i \in 1..Len(x.v) : NoHole(x.v[i])
  /\ x.t = "Object" => \A i \in 1..Len(x.v) : NoHole(x.v[i].v)

RECURSIVE ElemCount(_)
RECURSIVE ElemCountSeq(_, _)
ElemCountSeq(kids, i) ==
  IF i > Len(kids) THEN 0 ELSE ElemCount(kids[i]) + ElemCountSeq(kids, i + 1)

\* the number of element nodes of the tree under n, n included
ElemCount(n) ==
  IF IsElement(n) THEN 1 + ElemCountSeq(n.childNodes, 1) ELSE 0

RECURSIVE NodeCount(_)
RECURSIVE NodeCountSeq(_, _)
NodeCountSeq(kids, i) ==
  IF i > Len(kids) THEN 0 ELSE NodeCount(kids[i]) + NodeCountSeq(kids, i + 1)

\* the number of nodes of the tree under n, n included
NodeCount(n) == 1 + NodeCountSeq(n.childNodes, 1)

-----------------------------------------------------------------------------
(* The claims *)

\* C1: a <dict> whose non-ignorable children alternate <key> and value, are
\* even in number and all build, builds to a Dictionary whose key set is
\* exactly the set of the strings built from the <key> children, each key
\* mapped to the value built from the child after the last <key> with that
\* string.
C1_DictMatchesDocument ==
  (pc = "built" /\ node.nodeName = "dict") =>
    LET ks == NonIgn(node)
    IN  (Len(ks) % 2 = 0 /\ AlternatesUpTo(ks, Len(ks)) /\ BuildsOK(ks, Len(ks))) =>
          /\ res.ok
          /\ res.val.t = "Object"
          /\ KeysOf(res.val) = {Built(ks[i]).v : i \in {j \in 1..Len(ks) : j % 2 = 1}}
          /\ \A i \in {j \in 1..Len(ks) : j % 2 = 1} :
               (\A l \in (i + 1)..Len(ks) :
                   l % 2 = 1 => Built(ks[l]).v # Built(ks[i]).v)
               => /\ Built(ks[i]).v \in KeysOf(res.val)
                  /\ Lookup(res.val, Built(ks[i]).v) = Built(ks[i + 1])

C4_ArrayIsConcreteValuesInOrder ==
  (pc = "built" /\ node.nodeName = "array") =>
    LET ks    == NonIgn(node)
        known == SelectSeq(ks, LAMBDA c : c.nodeName \in KnownNames)
    IN  BuildsOK(ks, Len(ks)) =>
          /\ res.ok
          /\ res.val = Arr([i \in 1..Len(known) |-> Built(known[i])])
          /\ \A i \in 1..Len(res.val.v) : NotNullish(res.val.v[i])

C4_Witness ==
  /\ pc = "built"
  /\ node = Elem("array", <<Ws, StrX, Foo, TrueEl>>)
  /\ res.val = Arr(<<Str(<<"x">>), Bool(TRUE)>>)

\* C5: the value parse returns holds the no-value marker nowhere: not in a
\* value slot of a Dictionary, not in a List, not as the returned value.
C5_NoValueNeverLeaks ==
  (pc = "parsed" /\ res.ok) => NoHole(res.val)

\* C6: build on a <plist> yields the List of the built children and never
\* unwraps it; parse returns the sole member of a List of length 1, and the
\* List itself when its length is 0 or at least 2.
C6_ParseUnwrapsSingleton ==
  (node.nodeName = "plist" /\ pc # "init") =>
    LET ks    == NonIgn(node)
        items == [i \in 1..Len(ks) |-> Built(ks[i])]
    IN  BuildsOK(ks, Len(ks)) =>
          /\ res.ok
          /\ pc = "built" => res.val = Arr(items)
          /\ pc = "parsed" =>
               res.val = IF Len(items) = 1 THEN items[1] ELSE Arr(items)

C6_Witness ==
  /\ pc = "parsed"
  /\ node = Elem("plist", <<Ws, StrX>>)
  /\ res.val = Str(<<"x">>)

\* C7: an element without children builds to "" (string, key), to the empty
\* Dictionary (dict), to the empty List (array, plist), to zero bytes (data),
\* and fails for integer, real and date.
C7_EmptyElementPolicy ==
  (pc = "built" /\ Len(node.childNodes) = 0) =>
    /\ node.nodeName \in {"string", "key"} => res.ok /\ res.val = Str(<<>>)
    /\ node.nodeName = "dict" => res.ok /\ res.val = Obj(<<>>)
    /\ node.nodeName \in {"array", "plist"} => res.ok /\ res.val = Arr(<<>>)
    /\ node.nodeName = "data" => res.ok /\ res.val = Buffer(<<>>)
    /\ node.nodeName \in {"integer", "real", "date"} => ~res.ok /\ res.val = Undefined

C7_Witness ==
  /\ pc = "built"
  /\ node = Elem("date", <<>>)
  /\ ~res.ok

\* C8: a <key> builds to the concatenation, in document order, of the text
\* of all of its children (an empty <key> to the empty string).
C8_KeyIsJoinedText ==
  (pc = "built" /\ node.nodeName = "key") =>
    res.ok /\ res.val = Str(TextContent(node))

\* C9: a non-empty <integer>, <real> or <date> whose text cannot be read as
\* its type (here: a text without any digit) fails; no value is returned.
C9_MalformedLeafFails ==
  (pc = "built" /\ node.nodeName \in {"integer", "real", "date"}
     /\ Len(node.childNodes) > 0 /\ ~HasDigit(TextContent(node)))
  => ~res.ok

\* C10: during one call the builder is invoked at most once on each element,
\* so the number of invocations is at most the number of elements, and of
\* nodes, of the tree.
C10_OnePass ==
  pc # "init" => res.calls <= ElemCount(node) /\ res.calls <= NodeCount(node)

====
